---- MODULE Spec2Model ----
(***************************************************************************)
(* The OCI runtime executor of execution/executors/oci/oci.go.             *)
(*                                                                         *)
(* State: the on-disk ledger root/<id>/processes/<slot>/<file>, the        *)
(* driver's (runc's) own table of containers, the in-memory Container      *)
(* records callers hold, and one call frame per caller.  Every handler is  *)
(* cut into steps at its accesses to the ledger and to the driver, so that *)
(* calls of different callers can interleave exactly where the code lets   *)
(* them; a caller's frame keeps the handler's local variables, and once    *)
(* the handler has returned (pc = "idle") it keeps what the call returned. *)
(***************************************************************************)
EXTENDS Integers, Sequences, FiniteSets, TLC

\* ------------------------------------------------------------------ bounds
MaxPid == 3
MaxCalls == 4

Callers      == {"t1", "t2"}
ContainerIDs == {"c1", "c2"}
\* the slot directories in the order ioutil.ReadDir lists them
SlotSeq      == <<"s1", "s2", "s3">>
SlotNames    == {SlotSeq[i] : i \in 1..Len(SlotSeq)}
Signals      == {"SIGTERM", "SIGKILL"}
\* the root directories an executor may be constructed with
Roots        == {"", "/run/containerd"}
PidFileName  == "pid"
FileNames    == {PidFileName} \cup ContainerIDs
NoID         == ""
\* what a process ID argument may be: a slot name, the ID of a record built
\* without a name, or a name no slot ever has
ProcessIDs   == SlotNames \cup {NoID, "ghost"}

VARIABLES
    runtime,   \* the executor New returned: its root, and New's error
    ledger,    \* root/<id>/processes/<slot>/<file>
    driver,    \* the containers the driver (runc) knows, with their init PID
    nextPid,   \* the PID the next process the driver starts will get
    held,      \* per container ID, the Container record its caller holds
    call,      \* per caller, the frame of its call in flight or its last result
    lastList,  \* what the latest List returned, while no lifecycle call followed
    hist,      \* per container ID, what the driver reported since its Create
    ncalls     \* calls begun so far

vars == <<runtime, ledger, driver, nextPid, held, call, lastList, hist, ncalls>>

\* ------------------------------------------------------------------ ledger
NoFile       == [ok |-> FALSE, pid |-> 0]
PidFile(p)   == [ok |-> TRUE, pid |-> p]
NoSlot       == [exists |-> FALSE, files |-> [f \in FileNames |-> NoFile]]
EmptySlot    == [exists |-> TRUE, files |-> [f \in FileNames |-> NoFile]]
NoEntry      == [exists |-> FALSE, slots |-> [s \in SlotNames |-> NoSlot]]
EmptyEntry   == [exists |-> TRUE, slots |-> [s \in SlotNames |-> NoSlot]]

\* execution.NewContainer: the container-level entry root/<id> with its
\* empty processes collection; it fails when root/<id> is already there
NewContainerFails(l, id) == l[id].exists
NewContainer(l, id) == [l EXCEPT ![id] = EmptyEntry]

\* StateDir.Delete: root/<id> and everything under it
StateDirDelete(l, id) == [l EXCEPT ![id] = NoEntry]

\* StateDir.Processes + ioutil.ReadDir: the slots of root/<id>/processes
Processes(l, id) == {s \in SlotNames : l[id].exists /\ l[id].slots[s].exists}

\* StateDir.NewProcess: a fresh slot directory under root/<id>/processes;
\* the names it may pick are those no slot of the container has
FreeSlots(l, id) == IF l[id].exists THEN SlotNames \ Processes(l, id) ELSE {}
StateDirNewProcess(l, id, s) == [l EXCEPT ![id].slots[s] = EmptySlot]

\* StateDir.DeleteProcess: the slot directory and its files
StateDirDeleteProcess(l, id, s) ==
    IF s \in Processes(l, id) THEN [l EXCEPT ![id].slots[s] = NoSlot] ELSE l

\* the driver writing file f of slot s (nothing to write into without the slot)
WritePidFile(l, id, s, f, c) ==
    IF s \in Processes(l, id) THEN [l EXCEPT ![id].slots[s].files[f] = c] ELSE l

\* runc.ReadPidFile(pidfile) for the file f of slot s
ReadPidFile(l, id, s, f) ==
    IF s \in Processes(l, id) THEN l[id].slots[s].files[f] ELSE NoFile

\* ------------------------------------------------------ in-memory records
NoProcess == [exists |-> FALSE, id |-> NoID, pid |-> 0, init |-> FALSE]
\* newProcess(id, pid), with the init mark Container.AddProcess gives it
newProcess(id, pid, init) == [exists |-> TRUE, id |-> id, pid |-> pid, init |-> init]

NoContainer == [exists |-> FALSE, ID |-> NoID, procs |-> {}]
\* execution.NewContainer / execution.LoadContainer: a record without processes
Container(id) == [exists |-> TRUE, ID |-> id, procs |-> {}]
\* Container.AddProcess
AddProcess(c, p) == [c EXCEPT !.procs = @ \cup {p}]
\* Container.GetProcess: the record of that ID, or nil
ContainerGetProcess(c, id) ==
    IF \E p \in c.procs : p.id = id
    THEN CHOOSE p \in c.procs : p.id = id
    ELSE NoProcess

\* ------------------------------------------------------------------ driver
NoRuncC == [exists |-> FALSE, ID |-> NoID, Pid |-> 0, paused |-> FALSE]
RuncC(id, pid) == [exists |-> TRUE, ID |-> id, Pid |-> pid, paused |-> FALSE]

\* ------------------------------------------------------------- call frames
\* the result of the latest List, forgotten at the next lifecycle call
NoList == [valid |-> FALSE, err |-> "nil", list |-> {}]

\* the record of a container's life: created tells that Create succeeded and
\* neither Delete nor DeleteProcess followed; init and pids are the PIDs the
\* driver reported to Create and to each successful StartProcess since
NoHist == [created |-> FALSE, init |-> 0, pids |-> {}]

Idle ==
    [op |-> "none", pc |-> "idle", id |-> NoID, procID |-> NoID, sig |-> NoID,
     slot |-> NoID, file |-> NoID, err |-> "nil", pid |-> 0,
     allocated |-> FALSE, ndrv |-> 0, kills |-> <<>>,
     cont |-> NoContainer, proc |-> NoProcess, list |-> {},
     runcC |-> NoRuncC, runcCs |-> {}, prev |-> NoList,
     pre |-> [c \in ContainerIDs |-> NoEntry],
     preHeld |-> [c \in ContainerIDs |-> NoContainer]]

\* a call enters its handler: fresh locals, the ledger and the caller's
\* records as the call found them
Begin(op, pc, id) ==
    [Idle EXCEPT !.op = op, !.pc = pc, !.id = id, !.pre = ledger, !.preHeld = held]

\* oci.go:17-24  New(root): the executor with that root; New has no error
\* result and does not look at root (ErrRootEmpty, oci.go:15, is never used)
New(root) == [root |-> root, err |-> "nil"]

\* a caller can make a call on the executor New returned
CanBegin(t) == runtime.err = "nil" /\ call[t].pc = "idle" /\ ncalls < MaxCalls

Returned(t, op) == call[t].pc = "idle" /\ call[t].op = op

\* the state after New(root): nothing in the ledger, nothing in the driver
Constructed(root) ==
    /\ runtime = New(root)
    /\ ledger = [c \in ContainerIDs |-> NoEntry]
    /\ driver = [c \in ContainerIDs |-> NoRuncC]
    /\ nextPid = 1
    /\ held = [c \in ContainerIDs |-> NoContainer]
    /\ call = [t \in Callers |-> Idle]
    /\ lastList = NoList
    /\ hist = [c \in ContainerIDs |-> NoHist]
    /\ ncalls = 0

Init == Constructed("/run/containerd")

\* ------------------------------------------------------------------ Create
\* a Create whose rollback also runs when NewContainer failed
CreateNewContainer_RollbackAlways(t, id) ==
    /\ CanBegin(t)
    /\ ncalls' = ncalls + 1
    /\ IF NewContainerFails(ledger, id)
       THEN /\ call' = [call EXCEPT ![t] =
                    [Begin("Create", "idle", id) EXCEPT !.err = "NewContainer"]]
            /\ ledger' = StateDirDelete(ledger, id)
            /\ UNCHANGED hist
       ELSE /\ ledger' = NewContainer(ledger, id)
            /\ hist' = [hist EXCEPT ![id] = NoHist]
            /\ call' = [call EXCEPT ![t] =
                    [Begin("Create", "Create_NewProcess", id) EXCEPT
                        !.allocated = TRUE, !.cont = Container(id)]]
    /\ lastList' = NoList
    /\ UNCHANGED <<driver, nextPid, held, runtime>>

\* oci.go:33-40  NewContainer, early return on error, the rollback deferred
CreateNewContainer(t, id) ==
    /\ CanBegin(t)
    /\ ncalls' = ncalls + 1
    /\ IF NewContainerFails(ledger, id)
       THEN /\ call' = [call EXCEPT ![t] =
                    [Begin("Create", "idle", id) EXCEPT !.err = "NewContainer"]]
            /\ UNCHANGED <<ledger, hist>>
       ELSE /\ ledger' = NewContainer(ledger, id)
            /\ hist' = [hist EXCEPT ![id] = NoHist]
            /\ call' = [call EXCEPT ![t] =
                    [Begin("Create", "Create_NewProcess", id) EXCEPT
                        !.allocated = TRUE, !.cont = Container(id)]]
    /\ lastList' = NoList
    /\ UNCHANGED <<driver, nextPid, held, runtime>>

\* oci.go:41-44  initDir = StateDir().NewProcess(); pidFile = initDir/pid
CreateNewProcess(t) ==
    /\ call[t].pc = "Create_NewProcess"
    /\ LET id == call[t].id IN
       IF FreeSlots(ledger, id) = {}
       THEN \* no slot directory came to be: the driver gets a target that is not there
            /\ call' = [call EXCEPT ![t].pc = "Create_runc",
                                    ![t].file = PidFileName]
            /\ UNCHANGED ledger
       ELSE \E s \in FreeSlots(ledger, id) :
            /\ ledger' = StateDirNewProcess(ledger, id, s)
            /\ call' = [call EXCEPT ![t].pc = "Create_runc", ![t].slot = s,
                                    ![t].file = PidFileName]
    /\ UNCHANGED <<driver, nextPid, held, lastList, ncalls, hist, runtime>>

\* oci.go:45-53  runc.Create(id, bundle, Pidfile: pidfile)
CreateRunc(t) ==
    /\ call[t].pc = "Create_runc"
    /\ LET id == call[t].id
           s  == call[t].slot
       IN
       \/ \* the driver fails: nothing created
          /\ call' = [call EXCEPT ![t].pc = "Create_defer", ![t].err = "runc",
                                  ![t].ndrv = @ + 1]
          /\ UNCHANGED <<ledger, driver, nextPid>>
       \/ \* the driver starts the container and writes (readably or not) its PID
          /\ ~driver[id].exists
          /\ nextPid <= MaxPid
          /\ \E readable \in BOOLEAN :
                ledger' = WritePidFile(ledger, id, s, call[t].file,
                                       IF readable THEN PidFile(nextPid) ELSE NoFile)
          /\ driver' = [driver EXCEPT ![id] = RuncC(id, nextPid)]
          /\ nextPid' = nextPid + 1
          /\ call' = [call EXCEPT ![t].pc = "Create_ReadPidFile", ![t].ndrv = @ + 1]
    /\ UNCHANGED <<held, lastList, ncalls, hist, runtime>>

\* a Create that builds its record without the init mark
CreateProcess_NotInit(slot, pid) == newProcess(slot, pid, FALSE)

\* oci.go:59-64  newProcess(filepath.Base(initDir), pid), added as init
CreateProcess(slot, pid) == newProcess(slot, pid, TRUE)

\* oci.go:54-66  ReadPidFile, newProcess, AddProcess(process, true), return
CreateReadPidFile(t) ==
    /\ call[t].pc = "Create_ReadPidFile"
    /\ LET id == call[t].id
           f  == ReadPidFile(ledger, id, call[t].slot, call[t].file)
       IN
       IF ~f.ok
       THEN /\ call' = [call EXCEPT ![t].pc = "Create_defer", ![t].err = "ReadPidFile"]
            /\ UNCHANGED <<held, hist>>
       ELSE \E built \in BOOLEAN :
            IF ~built
            THEN /\ call' = [call EXCEPT ![t].pc = "Create_defer",
                                         ![t].err = "newProcess", ![t].pid = f.pid]
                 /\ UNCHANGED <<held, hist>>
            ELSE LET c == AddProcess(call[t].cont, CreateProcess(call[t].slot, f.pid)) IN
                 /\ call' = [call EXCEPT ![t].pc = "idle", ![t].pid = f.pid,
                                         ![t].cont = c]
                 /\ held' = [held EXCEPT ![id] = c]
                 /\ hist' = [hist EXCEPT ![id] =
                                [created |-> TRUE, init |-> f.pid, pids |-> {}]]
    /\ UNCHANGED <<ledger, driver, nextPid, lastList, ncalls, runtime>>

\* an error exit of Create that leaves the ledger entry behind
CreateDefer_NoRollback(t) ==
    /\ call[t].pc = "Create_defer"
    /\ call' = [call EXCEPT ![t].pc = "idle", ![t].cont = NoContainer]
    /\ UNCHANGED <<ledger, driver, nextPid, held, lastList, ncalls, hist, runtime>>

\* oci.go:36-40  the deferred rollback of an error exit
CreateDefer(t) ==
    /\ call[t].pc = "Create_defer"
    /\ ledger' = StateDirDelete(ledger, call[t].id)
    /\ call' = [call EXCEPT ![t].pc = "idle", ![t].cont = NoContainer]
    /\ UNCHANGED <<driver, nextPid, held, lastList, ncalls, hist, runtime>>

Create(t) ==
    \/ \E id \in ContainerIDs : CreateNewContainer(t, id)
    \/ CreateNewProcess(t)
    \/ CreateRunc(t)
    \/ CreateReadPidFile(t)
    \/ CreateDefer(t)

\* -------------------------------------------------------------------- load
\* oci.go:80-90  the loop over the slot directories from the i-th on: c is
\* the container built so far; builds tells whether newProcess succeeds
RECURSIVE loadDirs(_, _, _, _, _)
loadDirs(l, runcC, builds, i, c) ==
    IF i > Len(SlotSeq) THEN [err |-> "nil", cont |-> c]
    ELSE IF SlotSeq[i] \notin Processes(l, runcC.ID)
    THEN loadDirs(l, runcC, builds, i + 1, c)
    ELSE LET f == ReadPidFile(l, runcC.ID, SlotSeq[i], PidFileName) IN
         IF ~f.ok THEN [err |-> "ReadPidFile", cont |-> NoContainer]
         ELSE IF ~builds THEN [err |-> "newProcess", cont |-> NoContainer]
         ELSE loadDirs(l, runcC, builds, i + 1,
                       AddProcess(c, newProcess(SlotSeq[i], f.pid, f.pid = runcC.Pid)))

\* oci.go:69-93  load(runcC)
load(l, runcC, builds) ==
    IF ~l[runcC.ID].exists
    THEN [err |-> "ReadDir", cont |-> NoContainer]
    ELSE loadDirs(l, runcC, builds, 1, Container(runcC.ID))

\* -------------------------------------------------------------------- Load
\* oci.go:114-117  runc.State(id)
LoadState(t, id) ==
    /\ CanBegin(t)
    /\ ncalls' = ncalls + 1
    /\ \/ call' = [call EXCEPT ![t] =
              [Begin("Load", "idle", id) EXCEPT !.err = "runc", !.ndrv = 1]]
       \/ /\ driver[id].exists
          /\ call' = [call EXCEPT ![t] =
              [Begin("Load", "Load_load", id) EXCEPT !.runcC = driver[id], !.ndrv = 1]]
    /\ UNCHANGED <<ledger, driver, nextPid, held, lastList, hist, runtime>>

\* oci.go:119  return r.load(runcC)
LoadLoad(t) ==
    /\ call[t].pc = "Load_load"
    /\ \E builds \in BOOLEAN :
          LET r == load(ledger, call[t].runcC, builds) IN
          /\ call' = [call EXCEPT ![t].pc = "idle", ![t].err = r.err,
                                  ![t].cont = r.cont]
          /\ held' = IF r.err = "nil" THEN [held EXCEPT ![call[t].id] = r.cont]
                     ELSE held
    /\ UNCHANGED <<ledger, driver, nextPid, lastList, ncalls, hist, runtime>>

Load(t) ==
    \/ \E id \in ContainerIDs : LoadState(t, id)
    \/ LoadLoad(t)

\* -------------------------------------------------------------------- List
\* oci.go:96-99  runc.List()
ListRunc(t) ==
    /\ CanBegin(t)
    /\ ncalls' = ncalls + 1
    /\ \/ /\ call' = [call EXCEPT ![t] =
                 [Begin("List", "idle", NoID) EXCEPT
                     !.err = "runc", !.ndrv = 1, !.prev = lastList]]
          /\ lastList' = [valid |-> TRUE, err |-> "runc", list |-> {}]
       \/ /\ call' = [call EXCEPT ![t] =
                 [Begin("List", "List_load", NoID) EXCEPT
                     !.runcCs = {driver[c] : c \in {d \in ContainerIDs : driver[d].exists}},
                     !.ndrv = 1, !.prev = lastList]]
          /\ UNCHANGED lastList
    /\ UNCHANGED <<ledger, driver, nextPid, held, hist, runtime>>

\* a List that drops the containers it cannot load, and their ledger entries
ListLoad_SkipBroken(t) ==
    /\ call[t].pc = "List_load"
    /\ LET cs     == call[t].runcCs
           failed == {c \in cs : load(ledger, c, TRUE).err # "nil"}
           conts  == {load(ledger, c, TRUE).cont : c \in cs \ failed}
       IN
       /\ call' = [call EXCEPT ![t].pc = "idle", ![t].list = conts, ![t].err = "nil"]
       /\ lastList' = [valid |-> TRUE, err |-> "nil", list |-> conts]
       /\ ledger' = [id \in ContainerIDs |->
                        IF \E c \in failed : c.ID = id THEN NoEntry ELSE ledger[id]]
       /\ UNCHANGED held
    /\ UNCHANGED <<driver, nextPid, ncalls, hist, runtime>>

\* oci.go:101-110  load every enumerated container; the first failure ends the call
ListLoad(t) ==
    /\ call[t].pc = "List_load"
    /\ \E builds \in BOOLEAN :
          LET cs     == call[t].runcCs
              failed == {c \in cs : load(ledger, c, builds).err # "nil"}
              conts  == {load(ledger, c, builds).cont : c \in cs}
          IN
          IF failed # {}
          THEN \E c \in failed :
               /\ call' = [call EXCEPT ![t].pc = "idle", ![t].list = {},
                                       ![t].err = load(ledger, c, builds).err]
               /\ lastList' = [valid |-> TRUE, err |-> load(ledger, c, builds).err,
                               list |-> {}]
               /\ UNCHANGED held
          ELSE /\ call' = [call EXCEPT ![t].pc = "idle", ![t].list = conts,
                                       ![t].err = "nil"]
               /\ lastList' = [valid |-> TRUE, err |-> "nil", list |-> conts]
               /\ held' = [id \in ContainerIDs |->
                              IF \E c \in conts : c.ID = id
                              THEN CHOOSE c \in conts : c.ID = id
                              ELSE held[id]]
    /\ UNCHANGED <<ledger, driver, nextPid, ncalls, hist, runtime>>

List(t) ==
    \/ ListRunc(t)
    \/ ListLoad(t)

\* ------------------------------------------------------------------ Delete
\* a Delete that removes the ledger entry although the driver failed
DeleteRunc_DeleteOnFailure(t, id) ==
    /\ CanBegin(t)
    /\ held[id].exists
    /\ ncalls' = ncalls + 1
    /\ lastList' = NoList
    /\ \/ /\ call' = [call EXCEPT ![t] =
                 [Begin("Delete", "idle", id) EXCEPT !.err = "runc", !.ndrv = 1]]
          /\ ledger' = StateDirDelete(ledger, id)
          /\ UNCHANGED driver
       \/ /\ driver[id].exists
          /\ driver' = [driver EXCEPT ![id] = NoRuncC]
          /\ call' = [call EXCEPT ![t] =
                 [Begin("Delete", "Delete_StateDir", id) EXCEPT !.ndrv = 1]]
          /\ UNCHANGED ledger
    /\ UNCHANGED <<nextPid, held, hist, runtime>>

\* oci.go:123-125  runc.Delete(c.ID)
DeleteRunc(t, id) ==
    /\ CanBegin(t)
    /\ held[id].exists
    /\ ncalls' = ncalls + 1
    /\ lastList' = NoList
    /\ \/ /\ call' = [call EXCEPT ![t] =
                 [Begin("Delete", "idle", id) EXCEPT !.err = "runc", !.ndrv = 1]]
          /\ UNCHANGED driver
       \/ /\ driver[id].exists
          /\ driver' = [driver EXCEPT ![id] = NoRuncC]
          /\ call' = [call EXCEPT ![t] =
                 [Begin("Delete", "Delete_StateDir", id) EXCEPT !.ndrv = 1]]
    /\ UNCHANGED <<ledger, nextPid, held, hist, runtime>>

\* a Delete that returns success without removing the ledger entry
DeleteStateDir_Keep(t) ==
    /\ call[t].pc = "Delete_StateDir"
    /\ call' = [call EXCEPT ![t].pc = "idle"]
    /\ UNCHANGED <<ledger, driver, nextPid, held, lastList, ncalls, hist, runtime>>

\* oci.go:126-127  c.StateDir.Delete(); return nil
DeleteStateDir(t) ==
    /\ call[t].pc = "Delete_StateDir"
    /\ ledger' = StateDirDelete(ledger, call[t].id)
    /\ call' = [call EXCEPT ![t].pc = "idle"]
    /\ hist' = [hist EXCEPT ![call[t].id] = NoHist]
    /\ UNCHANGED <<driver, nextPid, held, lastList, ncalls, runtime>>

Delete(t) ==
    \/ \E id \in ContainerIDs : DeleteRunc(t, id)
    \/ DeleteStateDir(t)

\* ---------------------------------------------------------- Pause / Resume
\* the driver's pause or resume of container id: it fails, or it sets the state
RuncSetPaused(t, op, id, paused) ==
    \/ /\ call' = [call EXCEPT ![t] =
              [Begin(op, "idle", id) EXCEPT !.err = "runc", !.ndrv = 1]]
       /\ UNCHANGED driver
    \/ /\ driver[id].exists
       /\ driver[id].paused # paused
       /\ driver' = [driver EXCEPT ![id].paused = paused]
       /\ call' = [call EXCEPT ![t] = [Begin(op, "idle", id) EXCEPT !.ndrv = 1]]

\* a Pause that rolls the ledger entry back when the driver fails
Pause_Rollback(t, id) ==
    /\ CanBegin(t)
    /\ held[id].exists
    /\ ncalls' = ncalls + 1
    /\ RuncSetPaused(t, "Pause", id, TRUE)
    /\ ledger' = IF call'[t].err = "nil" THEN ledger ELSE StateDirDelete(ledger, id)
    /\ UNCHANGED <<nextPid, held, lastList, hist, runtime>>

\* oci.go:130-132
Pause(t, id) ==
    /\ CanBegin(t)
    /\ held[id].exists
    /\ ncalls' = ncalls + 1
    /\ RuncSetPaused(t, "Pause", id, TRUE)
    /\ UNCHANGED <<ledger, nextPid, held, lastList, hist, runtime>>

\* oci.go:134-136
Resume(t, id) ==
    /\ CanBegin(t)
    /\ held[id].exists
    /\ ncalls' = ncalls + 1
    /\ RuncSetPaused(t, "Resume", id, FALSE)
    /\ UNCHANGED <<ledger, nextPid, held, lastList, hist, runtime>>

\* ------------------------------------------------------------ StartProcess
\* the names the PID file of StartProcess may get: oci.go:151 joins the slot
\* directory with id, a name StartProcess does not bind; it is the file name
\* Create and load use, or the only ID the call has, the container's
ExecPidFileNames(id) == {PidFileName, id}

\* oci.go:141-151  c.StateDir.NewProcess(), early return on error, the
\* rollback deferred, the PID file's path
StartProcessNewProcess(t, id) ==
    /\ CanBegin(t)
    /\ held[id].exists
    /\ ncalls' = ncalls + 1
    /\ lastList' = NoList
    /\ IF ~ledger[id].exists
       THEN /\ call' = [call EXCEPT ![t] =
                    [Begin("StartProcess", "idle", id) EXCEPT !.err = "NewProcess"]]
            /\ UNCHANGED ledger
       ELSE \E s \in FreeSlots(ledger, id), f \in ExecPidFileNames(id) :
            /\ ledger' = StateDirNewProcess(ledger, id, s)
            /\ call' = [call EXCEPT ![t] =
                    [Begin("StartProcess", "StartProcess_runc", id) EXCEPT
                        !.slot = s, !.file = f, !.allocated = TRUE]]
    /\ UNCHANGED <<driver, nextPid, held, hist, runtime>>

\* oci.go:152-161  runc.ExecProcess(c.ID, spec, PidFile: pidfile, Detach)
StartProcessRunc(t) ==
    /\ call[t].pc = "StartProcess_runc"
    /\ LET id == call[t].id IN
       \/ /\ call' = [call EXCEPT ![t].pc = "StartProcess_defer",
                                  ![t].err = "runc", ![t].ndrv = @ + 1]
          /\ UNCHANGED <<ledger, nextPid>>
       \/ /\ driver[id].exists
          /\ nextPid <= MaxPid
          /\ \E readable \in BOOLEAN :
                ledger' = WritePidFile(ledger, id, call[t].slot, call[t].file,
                                       IF readable THEN PidFile(nextPid) ELSE NoFile)
          /\ nextPid' = nextPid + 1
          /\ call' = [call EXCEPT ![t].pc = "StartProcess_ReadPidFile",
                                  ![t].ndrv = @ + 1]
    /\ UNCHANGED <<driver, held, lastList, ncalls, hist, runtime>>

\* oci.go:167-172  newProcess(pid): a record without a slot name, not init
StartProcessRecord(pid) == newProcess(NoID, pid, FALSE)

\* oci.go:162-174  ReadPidFile(pidfile), newProcess(pid), AddProcess(process,
\* false), return process
StartProcessReadPidFile(t) ==
    /\ call[t].pc = "StartProcess_ReadPidFile"
    /\ LET id == call[t].id
           f  == ReadPidFile(ledger, id, call[t].slot, call[t].file)
       IN
       IF ~f.ok
       THEN /\ call' = [call EXCEPT ![t].pc = "StartProcess_defer",
                                    ![t].err = "ReadPidFile"]
            /\ UNCHANGED <<held, hist>>
       ELSE \E built \in BOOLEAN :
            IF ~built
            THEN /\ call' = [call EXCEPT ![t].pc = "StartProcess_defer",
                                         ![t].err = "newProcess", ![t].pid = f.pid]
                 /\ UNCHANGED <<held, hist>>
            ELSE LET p == StartProcessRecord(f.pid) IN
                 /\ call' = [call EXCEPT ![t].pc = "idle", ![t].pid = f.pid,
                                         ![t].proc = p]
                 /\ held' = [held EXCEPT ![id] = AddProcess(@, p)]
                 /\ hist' = [hist EXCEPT ![id].pids = @ \cup {f.pid}]
    /\ UNCHANGED <<ledger, driver, nextPid, lastList, ncalls, runtime>>

\* an error exit of StartProcess that leaves the slot behind
StartProcessDefer_NoRollback(t) ==
    /\ call[t].pc = "StartProcess_defer"
    /\ call' = [call EXCEPT ![t].pc = "idle"]
    /\ UNCHANGED <<ledger, driver, nextPid, held, lastList, ncalls, hist, runtime>>

\* an error exit of StartProcess that clears the whole processes collection
\* but for the slots with a pid file
StartProcessDefer_DeleteOthers(t) ==
    /\ call[t].pc = "StartProcess_defer"
    /\ ledger' = [ledger EXCEPT ![call[t].id].slots =
                      [s \in SlotNames |->
                          IF ReadPidFile(ledger, call[t].id, s, PidFileName).ok
                          THEN @[s] ELSE NoSlot]]
    /\ call' = [call EXCEPT ![t].pc = "idle"]
    /\ UNCHANGED <<driver, nextPid, held, lastList, ncalls, hist, runtime>>

\* oci.go:145-149  the deferred rollback of an error exit
StartProcessDefer(t) ==
    /\ call[t].pc = "StartProcess_defer"
    /\ ledger' = StateDirDeleteProcess(ledger, call[t].id, call[t].slot)
    /\ call' = [call EXCEPT ![t].pc = "idle"]
    /\ UNCHANGED <<driver, nextPid, held, lastList, ncalls, hist, runtime>>

StartProcess(t) ==
    \/ \E id \in ContainerIDs : StartProcessNewProcess(t, id)
    \/ StartProcessRunc(t)
    \/ StartProcessReadPidFile(t)
    \/ StartProcessDefer(t)

\* ----------------------------------------- SignalProcess / GetProcess / ...
\* the error SignalProcess returns for a process the container does not have:
\* oci.go:180 builds it with fmt.Errorf, a plain error no caller can tell apart
SignalNotFound == "fmt.Errorf"

\* the signals syscall.Kill may be handed: oci.go:182 passes os.Signal, not
\* the parameter sig
KillSignals(sig) == Signals

\* oci.go:177-183
SignalProcess(t, id, procID, sig) ==
    /\ CanBegin(t)
    /\ held[id].exists
    /\ ncalls' = ncalls + 1
    /\ LET process == ContainerGetProcess(held[id], procID)
           frame   == [Begin("SignalProcess", "idle", id) EXCEPT
                          !.procID = procID, !.sig = sig, !.proc = process]
       IN
       IF ~process.exists
       THEN call' = [call EXCEPT ![t] = [frame EXCEPT !.err = SignalNotFound]]
       ELSE \E s \in KillSignals(sig), e \in {"nil", "ESRCH"} :
            call' = [call EXCEPT ![t] =
                [frame EXCEPT !.err = e,
                              !.kills = <<[pid |-> process.pid, sig |-> s]>>]]
    /\ UNCHANGED <<ledger, driver, nextPid, held, lastList, hist, runtime>>

\* oci.go:185-187
GetProcess(t, id, procID) ==
    /\ CanBegin(t)
    /\ held[id].exists
    /\ ncalls' = ncalls + 1
    /\ call' = [call EXCEPT ![t] =
           [Begin("GetProcess", "idle", id) EXCEPT
               !.procID = procID, !.proc = ContainerGetProcess(held[id], procID)]]
    /\ UNCHANGED <<ledger, driver, nextPid, held, lastList, hist, runtime>>

\* oci.go:189-192
DeleteProcess(t, id, procID) ==
    /\ CanBegin(t)
    /\ held[id].exists
    /\ ncalls' = ncalls + 1
    /\ lastList' = NoList
    /\ ledger' = IF procID \in SlotNames
                 THEN StateDirDeleteProcess(ledger, id, procID) ELSE ledger
    /\ call' = [call EXCEPT ![t] =
           [Begin("DeleteProcess", "idle", id) EXCEPT !.procID = procID]]
    /\ hist' = [hist EXCEPT ![id].created = FALSE]
    /\ UNCHANGED <<driver, nextPid, held, runtime>>

\* ------------------------------------------------------------------- specs
Step(t) ==
    \/ Create(t)
    \/ Load(t)
    \/ List(t)
    \/ Delete(t)
    \/ \E id \in ContainerIDs : Pause(t, id)
    \/ \E id \in ContainerIDs : Resume(t, id)
    \/ StartProcess(t)
    \/ \E id \in ContainerIDs, p \in ProcessIDs, sig \in Signals :
          SignalProcess(t, id, p, sig)
    \/ \E id \in ContainerIDs, p \in ProcessIDs : GetProcess(t, id, p)
    \/ \E id \in ContainerIDs, p \in ProcessIDs : DeleteProcess(t, id, p)

\* one caller, one call at a time
Next == Step("t1")

Spec == Init /\ [][Next]_vars

\* the calls that write or read the ledger
LedgerStep(t) ==
    \/ Create(t)
    \/ Load(t)
    \/ List(t)
    \/ Delete(t)
    \/ StartProcess(t)
    \/ \E id \in ContainerIDs, p \in SlotNames : DeleteProcess(t, id, p)

\* the ledger, the driver and the records a successful Create(id) leaves
\* when it follows Init, with the init slot s and the driver's first PID; as
\* many calls are left as there are callers
Created(id, s) ==
    LET c == AddProcess(Container(id), CreateProcess(s, 1)) IN
    /\ runtime = New("/run/containerd")
    /\ ledger = [x \in ContainerIDs |->
                    IF x = id
                    THEN WritePidFile(StateDirNewProcess(NewContainer(
                             [y \in ContainerIDs |-> NoEntry], id), id, s),
                             id, s, PidFileName, PidFile(1))[id]
                    ELSE NoEntry]
    /\ driver = [x \in ContainerIDs |-> IF x = id THEN RuncC(id, 1) ELSE NoRuncC]
    /\ nextPid = 2
    /\ held = [x \in ContainerIDs |-> IF x = id THEN c ELSE NoContainer]
    /\ call = [t \in Callers |-> Idle]
    /\ lastList = NoList
    /\ hist = [x \in ContainerIDs |->
                  IF x = id THEN [created |-> TRUE, init |-> 1, pids |-> {}]
                  ELSE NoHist]
    /\ ncalls = MaxCalls - Cardinality(Callers)

\* concurrent callers start with one container already created
ConcInit == \E id \in ContainerIDs, s \in SlotNames : Created(id, s)

\* any caller may begin a call while others' calls are in flight
ConcNext == \E t \in Callers : LedgerStep(t)

ConcSpec == ConcInit /\ [][ConcNext]_vars

\* an executor constructed with any root, one caller, one call at a time
NewInit == \E root \in Roots : Constructed(root)

NewSpec == NewInit /\ [][Next]_vars

\* ------------------------------------------------------------------ claims
EnvErrors == {"runc", "newProcess"}

IDs(c) == {p.id : p \in c.procs}
Pids(c) == {p.pid : p \in c.procs}
ListView(list) == {[ID |-> c.ID, pids |-> Pids(c)] : c \in list}

C2_StartProcessRollback ==
    \A t \in Callers :
        (Returned(t, "StartProcess") /\ call[t].allocated /\ call[t].err # "nil")
            => /\ call[t].slot \notin Processes(ledger, call[t].id)
               /\ ledger = call[t].pre

\* the driver's exec failed on a container that has other slots with PID files
C2_Witness ==
    \E t \in Callers :
        /\ Returned(t, "StartProcess") /\ call[t].allocated
        /\ call[t].err = "runc"
        /\ \E s \in Processes(ledger, call[t].id) :
              ReadPidFile(ledger, call[t].id, s, PidFileName).ok

\* C3: after a successful Create and N successful StartProcess calls, with no
\* DeleteProcess, a Load the driver answers returns a Container of N+1
\* processes with the PIDs the driver reported, one of them, the init PID's, init
C3_LoadRoundTrip ==
    \A t \in Callers :
        (Returned(t, "Load") /\ hist[call[t].id].created /\ call[t].err \notin EnvErrors)
            => LET h == hist[call[t].id]
                   c == call[t].cont
               IN
               /\ call[t].err = "nil"
               /\ Cardinality(c.procs) = Cardinality(h.pids) + 1
               /\ Pids(c) = h.pids \cup {h.init}
               /\ {p \in c.procs : p.init} = {p \in c.procs : p.pid = h.init}
               /\ Cardinality({p \in c.procs : p.init}) = 1

\* C4: a successful Create returns the Container of that id with one Process,
\* init, named after the init slot, carrying the PID the driver reported, and
\* the ledger holds that PID in the slot's pid file
C4_CreateSuccess ==
    \A t \in Callers :
        (Returned(t, "Create") /\ call[t].err = "nil")
            => LET id == call[t].id
                   c  == call[t].cont
               IN
               /\ c.exists /\ c.ID = id
               /\ \E p \in c.procs :
                     /\ c.procs = {p}
                     /\ p.init
                     /\ p.pid = driver[id].Pid
                     /\ p.id \in Processes(ledger, id)
                     /\ Processes(ledger, id) = {p.id}
                     /\ ReadPidFile(ledger, id, p.id, PidFileName) = PidFile(p.pid)

C4_Witness ==
    \E t \in Callers :
        /\ Returned(t, "Create") /\ call[t].err = "nil"
        /\ Cardinality(call[t].cont.procs) = 1
        /\ ledger[call[t].id].exists

\* C5: a Delete whose driver delete succeeds calls the driver once, for the
\* container's ID, and removes the whole ledger entry, and not before the
\* driver has returned
C5_DeleteSuccess ==
    \A t \in Callers :
        /\ call[t].pc = "Delete_StateDir"
              => /\ call[t].ndrv = 1
                 /\ ~driver[call[t].id].exists
                 /\ ledger[call[t].id] = call[t].pre[call[t].id]
        /\ (Returned(t, "Delete") /\ call[t].err = "nil")
              => /\ call[t].ndrv = 1
                 /\ ~driver[call[t].id].exists
                 /\ ledger[call[t].id] = NoEntry

\* the deleted container had an init slot and a started process's slot
C5_Witness ==
    \E t \in Callers :
        /\ Returned(t, "Delete") /\ call[t].err = "nil"
        /\ Cardinality(Processes(call[t].pre, call[t].id)) >= 2
        /\ ledger[call[t].id] = NoEntry

\* C6: a Delete whose driver delete fails returns the driver's error, has
\* called the driver once, and leaves the ledger as the call found it
C6_DeleteFailure ==
    \A t \in Callers :
        (Returned(t, "Delete") /\ call[t].err # "nil")
            => /\ call[t].err = "runc"
               /\ call[t].ndrv = 1
               /\ ledger = call[t].pre

\* the driver refused to delete a container it has; its slots are still there
C6_Witness ==
    \E t \in Callers :
        /\ Returned(t, "Delete") /\ call[t].err = "runc"
        /\ driver[call[t].id].exists
        /\ Processes(ledger, call[t].id) # {}

\* C7: Pause and Resume, failing or not, leave the ledger and the in-memory
\* Container records as the call found them
C7_PauseResumeFrame ==
    \A t \in Callers :
        (Returned(t, "Pause") \/ Returned(t, "Resume"))
            => /\ ledger = call[t].pre
               /\ held = call[t].preHeld

\* a Resume the driver carried out, after a Pause, on a container with a process
C7_Witness ==
    \E t \in Callers :
        /\ Returned(t, "Resume") /\ call[t].err = "nil"
        /\ ~driver[call[t].id].paused
        /\ ledger[call[t].id].exists
        /\ held[call[t].id].procs # {}

\* C8: for a process ID the container's set does not have, GetProcess returns
\* nil, and SignalProcess returns the not-found error, one a caller can tell
\* from any other failure, and signals nothing
C8_NotFound ==
    \A t \in Callers :
        LET unknown == call[t].procID \notin IDs(call[t].preHeld[call[t].id]) IN
        /\ (Returned(t, "GetProcess") /\ unknown) => ~call[t].proc.exists
        /\ (Returned(t, "SignalProcess") /\ unknown)
              => /\ call[t].err = "ErrProcessNotFound"
                 /\ call[t].kills = <<>>

\* C9: List returns no container when it returns an error; it returns an
\* error when one enumerated container cannot be loaded; and otherwise one
\* Container per container the driver enumerated
C9_ListAllOrNothing ==
    \A t \in Callers :
        Returned(t, "List")
            => LET cs     == call[t].runcCs
                   broken == {c \in cs : load(ledger, c, TRUE).err # "nil"}
               IN
               /\ call[t].err # "nil" => call[t].list = {}
               /\ broken # {} => call[t].err \notin {"nil", "runc"}
               /\ (broken = {} /\ call[t].err \notin EnvErrors) => call[t].err = "nil"
               /\ call[t].err = "nil"
                     => /\ {c.ID : c \in call[t].list} = {c.ID : c \in cs}
                        /\ Cardinality(call[t].list) = Cardinality(cs)

\* the driver enumerated two containers, one loads and the other does not
C9_Witness ==
    \E t \in Callers :
        /\ Returned(t, "List") /\ call[t].err # "nil" /\ call[t].list = {}
        /\ \E c \in call[t].runcCs : load(ledger, c, TRUE).err = "nil"
        /\ \E c \in call[t].runcCs : load(ledger, c, TRUE).err # "nil"

\* C10: List leaves the ledger as it found it, and a List that follows
\* another with no Create, Delete, StartProcess or DeleteProcess in between
\* returns the same container IDs with the same PIDs (and fails to load a
\* container exactly when the first did)
C10_ListIdempotent ==
    \A t \in Callers :
        Returned(t, "List")
            => LET prev == call[t].prev IN
               /\ ledger = call[t].pre
               /\ (prev.valid /\ prev.err = "nil" /\ call[t].err = "nil")
                     => ListView(call[t].list) = ListView(prev.list)
               /\ (prev.valid /\ prev.err = "nil") => call[t].err \in EnvErrors \cup {"nil"}
               /\ (prev.valid /\ prev.err \notin EnvErrors \cup {"nil"})
                     => call[t].err # "nil"

\* two Lists in a row that both returned a container with its processes
C10_Witness ==
    \E t \in Callers :
        /\ Returned(t, "List") /\ call[t].err = "nil"
        /\ call[t].prev.valid /\ call[t].prev.err = "nil"
        /\ \E c \in call[t].list : Cardinality(c.procs) >= 2


\* caller t's StartProcess owns a slot: it allocated one and is in flight, or
\* has returned its Process
OwnsSlot(t) ==
    /\ call[t].op = "StartProcess" /\ call[t].allocated
    /\ call[t].pc # "idle" \/ call[t].err = "nil"

\* C11: while a StartProcess owns a slot, no step of another caller's
\* StartProcess on that container (its allocation, its driver's PID file, its
\* rollback) takes the same slot or changes that slot or its files
C11_StartProcessIsolation ==
    [][\A t, u \in Callers :
          (/\ t # u
           /\ OwnsSlot(t)
           /\ call'[u] # call[u]
           /\ call'[u].op = "StartProcess"
           /\ call'[u].id = call[t].id)
              => /\ call'[u].allocated => call'[u].slot # call[t].slot
                 /\ ledger'[call[t].id].slots[call[t].slot]
                        = ledger[call[t].id].slots[call[t].slot]]_vars

\* a StartProcess began while another's slot was there, that other rolled its
\* slot back, and the first one's PID file is as the driver wrote it
C11_Witness ==
    \E t, u \in Callers :
        /\ t # u /\ call[t].id = call[u].id
        /\ call[t].pc = "StartProcess_ReadPidFile"
        /\ ReadPidFile(ledger, call[t].id, call[t].slot, call[t].file).ok
        /\ Returned(u, "StartProcess") /\ call[u].allocated /\ call[u].err = "runc"
        /\ call[u].slot \in Processes(call[t].pre, call[t].id)
        /\ call[u].slot \notin Processes(ledger, call[t].id)

\* caller t's call has changed the ledger entry of its container and will
\* change it again: by a further allocation, its driver's PID file or its rollback
Mutating(t) ==
    call[t].pc \in {"Create_NewProcess", "Create_runc", "Create_defer",
                    "StartProcess_runc", "StartProcess_defer"}

\* C12: between a call's first and last change of a container's ledger entry
\* no other caller's step changes that entry
C12_NoInterleaving ==
    [][\A t, u \in Callers :
          (t # u /\ Mutating(t) /\ call'[u] # call[u])
              => ledger'[call[t].id] = ledger[call[t].id]]_vars

\* caller t's call has allocated a slot its driver has not yet written the
\* PID file of, and every other slot of the container has a readable pid file
OnlyPartialSlot(t) ==
    /\ call[t].pc \in {"Create_runc", "StartProcess_runc"}
    /\ call[t].slot \in Processes(ledger, call[t].id)
    /\ \A s \in Processes(ledger, call[t].id) \ {call[t].slot} :
          ReadPidFile(ledger, call[t].id, s, PidFileName).ok

\* C13: a Load or List that ran while another call's slot had no PID file yet
\* did not fail on a PID file, the in-flight slot being the only one without
C13_NoPartialState ==
    \A t, u \in Callers :
        (t # u /\ OnlyPartialSlot(t))
            => /\ (Returned(u, "Load") /\ call[u].id = call[t].id)
                     => call[u].err # "ReadPidFile"
               /\ (/\ Returned(u, "List")
                   /\ \A c \in ContainerIDs \ {call[t].id} :
                         \A s \in Processes(ledger, c) :
                            ReadPidFile(ledger, c, s, PidFileName).ok)
                     => call[u].err # "ReadPidFile"

Inits(c) == {p \in c.procs : p.init}

\* C14: every Container a caller holds (returned by a successful Create, Load
\* or List, whatever StartProcess, DeleteProcess, Pause or Resume followed)
\* has exactly one process marked init
C14_ExactlyOneInit ==
    \A id \in ContainerIDs :
        held[id].exists => Cardinality(Inits(held[id])) = 1

\* C15: a Load the driver answered returns an error when a slot of the
\* container has no readable pid file, or when no slot's PID is the init PID
\* the driver reported
C15_LoadInconsistent ==
    \A t \in Callers :
        LET id == call[t].id IN
        (/\ Returned(t, "Load")
         /\ call[t].runcC.exists
         /\ \/ \E s \in Processes(ledger, id) :
                  ~ReadPidFile(ledger, id, s, PidFileName).ok
            \/ \A s \in Processes(ledger, id) :
                  ReadPidFile(ledger, id, s, PidFileName).pid # call[t].runcC.Pid)
            => call[t].err # "nil"

\* C17: after a successful Create, StartProcess or DeleteProcess the IDs of
\* the container's in-memory records are the names of its slots; the record
\* StartProcess returns is named after the slot it allocated; the ID
\* DeleteProcess was given names no slot and no record
C17_RecordsMatchSlots ==
    \A t \in Callers :
        LET id == call[t].id IN
        (/\ call[t].pc = "idle"
         /\ call[t].op \in {"Create", "StartProcess", "DeleteProcess"}
         /\ call[t].err = "nil"
         /\ ledger[id].exists)
            => /\ IDs(held[id]) = Processes(ledger, id)
               /\ call[t].op = "StartProcess" => call[t].proc.id = call[t].slot
               /\ call[t].op = "DeleteProcess"
                     => /\ call[t].procID \notin Processes(ledger, id)
                        /\ ~ContainerGetProcess(held[id], call[t].procID).exists

\* C18: a SignalProcess for a process the container has sends the caller's
\* signal once to the record's PID, and reads neither ledger nor driver
C18_SignalDelivered ==
    \A t \in Callers :
        (Returned(t, "SignalProcess") /\ call[t].proc.exists)
            => /\ call[t].kills = <<[pid |-> call[t].proc.pid, sig |-> call[t].sig]>>
               /\ call[t].ndrv = 0
               /\ ledger = call[t].pre

\* C19: a Create for an id whose ledger entry exists returns an error, has
\* not called the driver, and leaves the ledger and the records as it found them
C19_CreateExisting ==
    \A t \in Callers :
        (Returned(t, "Create") /\ call[t].pre[call[t].id].exists)
            => /\ call[t].err # "nil"
               /\ ~call[t].allocated
               /\ call[t].ndrv = 0
               /\ ledger = call[t].pre
               /\ held = call[t].preHeld

\* the existing entry has an init slot with its PID, and the driver its container
C19_Witness ==
    \E t \in Callers :
        /\ Returned(t, "Create") /\ call[t].err = "NewContainer"
        /\ driver[call[t].id].exists
        /\ \E s \in Processes(ledger, call[t].id) :
              ReadPidFile(ledger, call[t].id, s, PidFileName).ok

C16_RootEmpty ==
    runtime.root = ""
        => /\ runtime.err = "ErrRootEmpty"
           /\ ncalls = 0
           /\ \A t \in Callers : call[t].op = "none"
====
